---- MODULE Spec2Model ----
(***************************************************************************)
(* Stock ledger and transactional movement engine of the stockflow backend *)
(* (createSale, createReturn, createStockTransfer) over a PostgreSQL store *)
(* reached through one connection pool.  Every db.transaction(...) is a    *)
(* READ COMMITTED transaction: a statement sees the committed rows plus    *)
(* the transaction's own writes, an UPDATE takes the row's lock until the  *)
(* transaction ends, and a throw inside the callback rolls everything back.*)
(* Statements that only append rows private to the transaction are grouped *)
(* with the neighbouring SELECT or UPDATE of stock_levels; the SELECT and  *)
(* the UPDATE of a stock_levels row are always separate steps.  The status  *)
(* update of a transfer and the list and get-by-id reads run outside any   *)
(* transaction and are one step each.                                      *)
(***************************************************************************)
EXTENDS Integers, Sequences, FiniteSets, TLC

(* ------------------------------ bounds -------------------------------- *)
\* operations started in one behaviour
MaxOps == 3
\* largest quantity of a request line
MaxQty == 2
\* largest number of lines of a request
MaxItems == 2
\* request-handling workers running in parallel
NumWorkers == 2

(* ------------------------- catalog (static rows) ---------------------- *)
NULL == "null"
\* a request that names no branch
NoBranch == 0
Workers == 1..NumWorkers
Businesses == {1, 2}
\* branches.businessId: branches 1, 2, 3 belong to business 1, branches 4, 5 to business 2
BranchBusiness == <<1, 1, 1, 2, 2>>
Branches == DOMAIN BranchBusiness
\* products.businessId: products 1, 2 belong to business 1, product 3 to business 2
ProductBusiness == <<1, 1, 2>>
Products == DOMAIN ProductBusiness
\* unit prices, in thousandths of the currency unit
Prices == {1500}
OfflineIds == {NULL, "k1"}
\* the products rows as seeded
InitProducts == {[id |-> p, businessId |-> ProductBusiness[p]] : p \in Products}

VARIABLES
  products,            \* committed products rows
  stockLevels,         \* committed stock_levels rows; the index is the row id
  stockMovements,      \* committed stock_movements rows, in commit order
  sales,               \* committed sales rows
  saleItems,           \* committed sale_items rows
  cashRegisterEntries, \* committed cash_register_entries rows
  returns,             \* committed returns rows
  returnItems,         \* committed return_items rows
  stockTransfers,      \* committed stock_transfers rows
  stockTransferItems,  \* committed stock_transfer_items rows
  nextId,              \* the serial sequences of sales, returns, stock_transfers, products
  pc,                  \* each worker's position in its operation
  req,                 \* each worker's request parameters
  loc,                 \* each worker's local variables
  tx,                  \* each worker's open transaction: uncommitted writes and row locks
  outcome,             \* how each worker's last operation ended
  started              \* operations started so far

dbVars == <<products, stockLevels, stockMovements, sales, saleItems, cashRegisterEntries,
            returns, returnItems, stockTransfers, stockTransferItems>>
vars == <<products, stockLevels, stockMovements, sales, saleItems, cashRegisterEntries,
          returns, returnItems, stockTransfers, stockTransferItems,
          nextId, pc, req, loc, tx, outcome, started>>

(* ------------------------------ helpers ------------------------------- *)
RECURSIVE SumSeq(_)
SumSeq(s) == IF s = <<>> THEN 0 ELSE Head(s) + SumSeq(Tail(s))

RECURSIVE SumSet(_, _)
SumSet(S, f) ==
  IF S = {} THEN 0
  ELSE LET x == CHOOSE y \in S : TRUE IN f[x] + SumSet(S \ {x}, f)

SeqsUpTo(S, n) == UNION {[1..k -> S] : k \in 1..n}

\* Number.prototype.toFixed(2) on an amount in thousandths: round to the nearest hundredth
ToFixed2(x) == ((x + 5) \div 10) * 10

EmptyTx ==
  [ upd |-> <<>>, newLevels |-> <<>>, movements |-> <<>>,
    sales |-> {}, saleItems |-> {}, cash |-> {},
    returns |-> {}, returnItems |-> {},
    transfers |-> {}, transferItems |-> {} ]

NoReq ==
  [ kind |-> "none", businessId |-> 0, branchId |-> 0, toBranchId |-> 0, saleId |-> 0,
    items |-> <<>>, totalAmount |-> 0, offlineId |-> NULL ]

\* error is the message of the thrown error, rows the rows a read returned
NoOutcome ==
  [kind |-> "none", result |-> "none", id |-> 0, line |-> 0, error |-> "none", rows |-> {}]

NoLoc == [ idx |-> 0, row |-> 0, qty |-> 0, id |-> 0, lines |-> <<>>, branch |-> 0 ]

(* -------------------- the store seen by a transaction ----------------- *)
\* rows a worker has updated and not yet committed: it holds their locks
LockedBy(w) == DOMAIN tx[w].upd

LockedByOther(w, row) == \E o \in Workers \ {w} : row \in LockedBy(o)

\* a statement that does not see the transaction's own updates
RowQuantityCommitted(w, row) ==
  IF row < 0 THEN tx[w].newLevels[-row].quantity ELSE stockLevels[row].quantity

\* the quantity of a row as statement of worker w sees it; row > 0 is a
\* committed row, row < 0 a row the transaction itself inserted
RowQuantity(w, row) ==
  IF row < 0 THEN tx[w].newLevels[-row].quantity
  ELSE IF row \in DOMAIN tx[w].upd THEN tx[w].upd[row]
  ELSE stockLevels[row].quantity

KeyOf(b, br, p) == [businessId |-> b, branchId |-> br, productId |-> p]
RowKey(r) == KeyOf(r.businessId, r.branchId, r.productId)

\* select().from(stockLevels).where(business, branch, product).limit(1):
\* the rows the statement may return (0 when there is none)
SelectLevel(w, b, br, p) ==
  LET committed == {i \in DOMAIN stockLevels : RowKey(stockLevels[i]) = KeyOf(b, br, p)}
      own == {-j : j \in {k \in DOMAIN tx[w].newLevels :
                              RowKey(tx[w].newLevels[k]) = KeyOf(b, br, p)}}
  IN IF committed \cup own = {} THEN {0} ELSE committed \cup own

\* update(stockLevels).set({quantity}).where(eq(stockLevels.id, row))
UpdateLevel(t, row, q) ==
  IF row < 0
  THEN [t EXCEPT !.newLevels[-row].quantity = q]
  ELSE [t EXCEPT !.upd = (row :> q) @@ t.upd]

\* insert(stockLevels).values({businessId, branchId, productId, quantity})
InsertLevel(t, b, br, p, q) ==
  [t EXCEPT !.newLevels =
     Append(@, [businessId |-> b, branchId |-> br, productId |-> p, quantity |-> q])]

\* insert(stockMovements).values({..., type, quantity, note})
InsertMovement(t, b, br, p, type, q, note) ==
  [t EXCEPT !.movements =
     Append(@, [businessId |-> b, branchId |-> br, productId |-> p,
                type |-> type, quantity |-> q, note |-> note])]

\* COMMIT: the transaction's writes become the committed rows, its locks are released
CommitLevels(t) ==
  [i \in DOMAIN stockLevels |->
     IF i \in DOMAIN t.upd THEN [stockLevels[i] EXCEPT !.quantity = t.upd[i]]
     ELSE stockLevels[i]] \o t.newLevels

Commit(w, t) ==
  /\ products' = products
  /\ stockLevels' = CommitLevels(t)
  /\ stockMovements' = stockMovements \o t.movements
  /\ sales' = sales \cup t.sales
  /\ saleItems' = saleItems \cup t.saleItems
  /\ cashRegisterEntries' = cashRegisterEntries \cup t.cash
  /\ returns' = returns \cup t.returns
  /\ returnItems' = returnItems \cup t.returnItems
  /\ stockTransfers' = stockTransfers \cup t.transfers
  /\ stockTransferItems' = stockTransferItems \cup t.transferItems
  /\ tx' = [tx EXCEPT ![w] = EmptyTx]

\* the writes of a failed operation stay, as if it ran outside a transaction
RollbackKeepsWrites(w) == Commit(w, tx[w])

\* ROLLBACK: the callback threw; the transaction's writes are dropped, its locks released
Rollback(w) ==
  /\ UNCHANGED dbVars
  /\ tx' = [tx EXCEPT ![w] = EmptyTx]

(* ------------------------------ Init ---------------------------------- *)
\* stock_levels as seeded: product 1 in the three branches of business 1,
\* product 3 in the branch of business 2; product 2 has no row yet
InitLevels ==
  << [businessId |-> 1, branchId |-> 1, productId |-> 1, quantity |-> 2],
     [businessId |-> 1, branchId |-> 2, productId |-> 1, quantity |-> 1],
     [businessId |-> 1, branchId |-> 3, productId |-> 1, quantity |-> 2],
     [businessId |-> 2, branchId |-> 4, productId |-> 3, quantity |-> 2] >>

\* the opening_balance movements that go with the seeded rows
InitMovements ==
  [i \in DOMAIN InitLevels |->
     [businessId |-> InitLevels[i].businessId, branchId |-> InitLevels[i].branchId,
      productId |-> InitLevels[i].productId, type |-> "opening_balance",
      quantity |-> InitLevels[i].quantity, note |-> <<"seed">>]]

Init ==
  /\ products = InitProducts
  /\ stockLevels = InitLevels
  /\ stockMovements = InitMovements
  /\ sales = {} /\ saleItems = {} /\ cashRegisterEntries = {}
  /\ returns = {} /\ returnItems = {}
  /\ stockTransfers = {} /\ stockTransferItems = {}
  /\ nextId = [sales |-> 1, returns |-> 1, transfers |-> 1, products |-> Len(ProductBusiness) + 1]
  /\ pc = [w \in Workers |-> "idle"]
  /\ req = [w \in Workers |-> NoReq]
  /\ loc = [w \in Workers |-> NoLoc]
  /\ tx = [w \in Workers |-> EmptyTx]
  /\ outcome = [w \in Workers |-> NoOutcome]
  /\ started = 0

\* one product at one branch, with stock well above any request
ExampleLevels ==
  << [businessId |-> 1, branchId |-> 1, productId |-> 1, quantity |-> 10] >>

InitExample ==
  /\ products = InitProducts
  /\ stockLevels = ExampleLevels
  /\ stockMovements =
       [i \in DOMAIN ExampleLevels |->
          [businessId |-> ExampleLevels[i].businessId, branchId |-> ExampleLevels[i].branchId,
           productId |-> ExampleLevels[i].productId, type |-> "opening_balance",
           quantity |-> ExampleLevels[i].quantity, note |-> <<"seed">>]]
  /\ sales = {} /\ saleItems = {} /\ cashRegisterEntries = {}
  /\ returns = {} /\ returnItems = {}
  /\ stockTransfers = {} /\ stockTransferItems = {}
  /\ nextId = [sales |-> 1, returns |-> 1, transfers |-> 1, products |-> Len(ProductBusiness) + 1]
  /\ pc = [w \in Workers |-> "idle"]
  /\ req = [w \in Workers |-> NoReq]
  /\ loc = [w \in Workers |-> NoLoc]
  /\ tx = [w \in Workers |-> EmptyTx]
  /\ outcome = [w \in Workers |-> NoOutcome]
  /\ started = 0

(* ------------------------------ requests ------------------------------ *)
SaleLines(productIds) == [productId : productIds, quantity : 1..MaxQty, unitPrice : Prices]
QtyLines(productIds) == [productId : productIds, quantity : 1..MaxQty, unitPrice : {0}]

\* the total the route computes when the body carries none
ComputedTotal(items) ==
  SumSeq([i \in DOMAIN items |-> items[i].quantity * items[i].unitPrice])

SaleRequests(branches, lists, offlineIds) ==
  { [ kind |-> "sale", businessId |-> 1, branchId |-> br, toBranchId |-> 0, saleId |-> 0,
      items |-> l, totalAmount |-> ComputedTotal(l), offlineId |-> o ] :
    br \in branches, l \in lists, o \in offlineIds }

ReturnRequests(saleIds, branches, lists) ==
  { [ kind |-> "return", businessId |-> 1, branchId |-> br, toBranchId |-> 0, saleId |-> s,
      items |-> l, totalAmount |-> 0, offlineId |-> NULL ] :
    s \in saleIds, br \in branches, l \in lists }

TransferRequests(branches, lists) ==
  { [ kind |-> "transfer", businessId |-> 1, branchId |-> from, toBranchId |-> to,
      saleId |-> 0, items |-> l, totalAmount |-> 0, offlineId |-> NULL ] :
    from \in branches, to \in branches, l \in lists }

\* the same requests, made by a user of business b
OfBusiness(b, requests) == {[r EXCEPT !.businessId = b] : r \in requests}

(* ------------------------- start and end of an operation --------------- *)
InTx(w) == pc[w] # "idle"

\* the operation of worker w ends: its result, the id of the row it created (0 if
\* none) and the request line it was at are kept; its locals are dropped
Finish(w, result) ==
  /\ pc' = [pc EXCEPT ![w] = "idle"]
  /\ outcome' = [outcome EXCEPT ![w] =
       [NoOutcome EXCEPT !.kind = req[w].kind, !.result = result,
                         !.id = loc[w].id, !.line = loc[w].idx]]
  /\ req' = [req EXCEPT ![w] = NoReq]
  /\ loc' = [loc EXCEPT ![w] = NoLoc]

\* a request is rejected before any transaction is opened, at a line of the
\* request (0 when the check is not about a line), with the error's message
RejectAt(w, r, result, line, error) ==
  /\ outcome' = [outcome EXCEPT ![w] =
       [NoOutcome EXCEPT !.kind = r.kind, !.result = result, !.line = line, !.error = error]]
  /\ UNCHANGED <<dbVars, nextId, pc, req, loc, tx>>

Reject(w, r, result) == RejectAt(w, r, result, 0, "none")

\* the request is accepted: the worker keeps it while its transaction runs
Accept(w, r, label) ==
  /\ req' = [req EXCEPT ![w] = r]
  /\ pc' = [pc EXCEPT ![w] = label]
  /\ UNCHANGED <<dbVars, outcome>>

Start(w) ==
  /\ pc[w] = "idle"
  /\ started < MaxOps
  /\ started' = started + 1

(* ------------------------------ createSale ---------------------------- *)
\* the sales row createSale inserts
SaleRow(id, r) ==
  [ id |-> id, businessId |-> r.businessId, branchId |-> r.branchId,
    totalAmount |-> ToFixed2(r.totalAmount), status |-> "completed",
    offlineId |-> r.offlineId ]

\* the sale_items row of line i
SaleItemRow(id, i, item) ==
  [ saleId |-> id, line |-> i, productId |-> item.productId, quantity |-> item.quantity,
    unitPrice |-> ToFixed2(item.unitPrice),
    lineTotal |-> ToFixed2(item.quantity * item.unitPrice) ]

\* the cash_register_entries row of the sale
CashRow(id, r) ==
  [ saleId |-> id, businessId |-> r.businessId, branchId |-> r.branchId,
    amount |-> ToFixed2(r.totalAmount) ]

\* a sale that takes no more than the row holds
SaleNewQuantityFloored(read, q) == IF read < q THEN 0 ELSE read - q

\* the quantity createSale writes to an existing row, and to a new row
SaleNewQuantity(read, q) == read - q
SaleFirstQuantity(q) == -q

\* the empty-items check, BEGIN, and the insert of the sales row
CreateSaleBegin(w, requests) ==
  \E r \in requests :
    /\ Start(w)
    /\ IF r.items = <<>>
       THEN Reject(w, r, "InvalidArgument")
       ELSE /\ nextId' = [nextId EXCEPT !.sales = @ + 1]
            /\ tx' = [tx EXCEPT ![w] = [EmptyTx EXCEPT !.sales = {SaleRow(nextId.sales, r)}]]
            /\ loc' = [loc EXCEPT ![w] = [NoLoc EXCEPT !.idx = 1, !.id = nextId.sales]]
            /\ Accept(w, r, "s_item")

\* one line: the insert of its sale_items row and the SELECT of its stock_levels row;
\* the insert fails on sale_items.product_id when the product row is gone
CreateSaleSelect(w) ==
  /\ pc[w] = "s_item"
  /\ LET item == req[w].items[loc[w].idx] IN
     IF \A x \in products : x.id # item.productId
     THEN /\ Rollback(w)
          /\ Finish(w, "Internal")
          /\ UNCHANGED <<nextId, started>>
     ELSE /\ \E row \in SelectLevel(w, req[w].businessId, req[w].branchId, item.productId) :
               /\ tx' = [tx EXCEPT ![w].saleItems =
                            @ \cup {SaleItemRow(loc[w].id, loc[w].idx, item)}]
               /\ loc' = [loc EXCEPT ![w].row = row,
                                     ![w].qty = IF row = 0 THEN 0 ELSE RowQuantity(w, row)]
          /\ pc' = [pc EXCEPT ![w] = "s_adjust"]
          /\ UNCHANGED <<dbVars, nextId, req, outcome, started>>

\* the same line: the UPDATE (or INSERT) of the stock_levels row and the movement
CreateSaleAdjust(w) ==
  /\ pc[w] = "s_adjust"
  /\ ~LockedByOther(w, loc[w].row)
  /\ LET item == req[w].items[loc[w].idx]
         b == req[w].businessId
         br == req[w].branchId
         t1 == IF loc[w].row # 0
               THEN UpdateLevel(tx[w], loc[w].row, SaleNewQuantity(loc[w].qty, item.quantity))
               ELSE InsertLevel(tx[w], b, br, item.productId, SaleFirstQuantity(item.quantity))
     IN tx' = [tx EXCEPT ![w] =
                 InsertMovement(t1, b, br, item.productId, "sale", item.quantity, <<"POS sale">>)]
  /\ loc' = [loc EXCEPT ![w].idx = @ + 1]
  /\ pc' = [pc EXCEPT ![w] =
              IF loc[w].idx < Len(req[w].items) THEN "s_item" ELSE "s_register"]
  /\ UNCHANGED <<dbVars, nextId, req, outcome, started>>

\* the insert of the cash register entry, and COMMIT
CreateSaleCommit(w) ==
  /\ pc[w] = "s_register"
  /\ Commit(w, [tx[w] EXCEPT !.cash = {CashRow(loc[w].id, req[w])}])
  /\ Finish(w, "committed")
  /\ UNCHANGED <<nextId, started>>

(* ------------------------------ createReturn -------------------------- *)
\* a load of the sale by its id alone
SaleRowsWithId(saleId, b) == {s \in sales : s.id = saleId}

\* select().from(sales).where(id, businessId).limit(1)
SaleRowsOf(saleId, b) == {s \in sales : s.id = saleId /\ s.businessId = b}

\* saleItemByProductId: Map.set in row order, so the last row of a product stays
SaleItemByProductId(saleId) ==
  LET rows == {i \in saleItems : i.saleId = saleId}
      prods == {i.productId : i \in rows}
  IN [p \in prods |->
        CHOOSE i \in rows : /\ i.productId = p
                            /\ \A j \in rows : j.productId = p => j.line <= i.line]

\* alreadyReturnedByProductId: return_items joined with the returns of the sale
AlreadyReturned(saleId, b, p) ==
  LET rets == {r.id : r \in {x \in returns : x.saleId = saleId /\ x.businessId = b}}
      rows == {i \in returnItems : i.returnId \in rets /\ i.productId = p}
  IN SumSet(rows, [i \in rows |-> i.quantity])

\* the check of one requested line against the sale and the returns loaded before
\* the remaining quantity is not looked at
ReturnLineErrorUnbounded(base, saleId, b, item) ==
  IF item.productId \notin DOMAIN base THEN "not part of the original sale"
  ELSE IF item.quantity <= 0 THEN "Invalid quantity"
  ELSE "ok"

\* the error thrown for the line, "ok" when it passes
ReturnLineError(base, saleId, b, item) ==
  IF item.productId \notin DOMAIN base THEN "not part of the original sale"
  ELSE IF item.quantity <= 0 THEN "Invalid quantity"
  ELSE LET maxAvailable == base[item.productId].quantity
                             - AlreadyReturned(saleId, b, item.productId)
       IN IF maxAvailable <= 0 THEN "have already been returned"
          ELSE IF item.quantity > maxAvailable THEN "Cannot return"
          ELSE "ok"

\* the first line of the request that fails its check, 0 when every line passes
FirstFailingLine(base, r) ==
  LET bad == {i \in DOMAIN r.items :
                ReturnLineError(base, r.saleId, r.businessId, r.items[i]) # "ok"}
  IN IF bad = {} THEN 0 ELSE CHOOSE i \in bad : \A j \in bad : i <= j

\* the unit price is taken from the request line
ValidatedItemsAsRequested(base, items) ==
  [i \in DOMAIN items |->
     [ productId |-> items[i].productId, quantity |-> items[i].quantity,
       unitPrice |-> items[i].unitPrice,
       lineTotal |-> items[i].unitPrice * items[i].quantity ]]

\* validatedItems: the unit price is the sale's, the line total price times quantity
ValidatedItems(base, items) ==
  [i \in DOMAIN items |->
     [ productId |-> items[i].productId, quantity |-> items[i].quantity,
       unitPrice |-> base[items[i].productId].unitPrice,
       lineTotal |-> base[items[i].productId].unitPrice * items[i].quantity ]]

\* the branch of the request, and the first branch when it names none
BranchIdOfRequest(saleRow, r) == IF r.branchId # NoBranch THEN r.branchId ELSE 1

\* branchIdForReturn: the branch of the sale
BranchIdForReturn(saleRow, r) == saleRow.branchId

ReturnRow(id, r, branchIdForReturn, lines) ==
  [ id |-> id, saleId |-> r.saleId, businessId |-> r.businessId,
    branchId |-> branchIdForReturn,
    totalAmount |-> ToFixed2(SumSeq([i \in DOMAIN lines |-> lines[i].lineTotal])) ]

ReturnItemRow(id, i, item) ==
  [ returnId |-> id, line |-> i, productId |-> item.productId, quantity |-> item.quantity,
    unitPrice |-> ToFixed2(item.unitPrice), lineTotal |-> ToFixed2(item.lineTotal) ]

\* the row is written back as read
ReturnNewQuantityAsRead(read, q) == read

ReturnNewQuantity(read, q) == read + q

\* the loads of the sale, its items and the prior returns, the validation of
\* every line, then BEGIN and the insert of the returns row
CreateReturnBegin(w, requests) ==
  \E r \in requests :
    /\ Start(w)
    /\ LET found == SaleRowsOf(r.saleId, r.businessId)
           base == SaleItemByProductId(r.saleId)
       IN
       IF r.items = <<>>
         THEN RejectAt(w, r, "InvalidArgument", 0, "Return must have at least one item")
       ELSE IF found = {}
         THEN RejectAt(w, r, "NotFound", 0, "Sale not found for this business")
       ELSE LET saleRow == CHOOSE s \in found : TRUE IN
       IF r.branchId # NoBranch /\ saleRow.branchId # r.branchId
         THEN RejectAt(w, r, "InvalidArgument", 0, "Sale does not belong to the current branch")
       ELSE IF DOMAIN base = {}
         THEN RejectAt(w, r, "InvalidArgument", 0, "Sale has no line items")
       ELSE IF FirstFailingLine(base, r) # 0
         THEN LET i == FirstFailingLine(base, r) IN
              RejectAt(w, r, "InvalidArgument", i,
                       ReturnLineError(base, r.saleId, r.businessId, r.items[i]))
       ELSE LET lines == ValidatedItems(base, r.items) IN
            /\ nextId' = [nextId EXCEPT !.returns = @ + 1]
            /\ tx' = [tx EXCEPT ![w] = [EmptyTx EXCEPT !.returns =
                        {ReturnRow(nextId.returns, r, BranchIdForReturn(saleRow, r), lines)}]]
            /\ loc' = [loc EXCEPT ![w] = [NoLoc EXCEPT !.idx = 1, !.id = nextId.returns,
                                                      !.lines = lines,
                                                      !.branch = BranchIdForReturn(saleRow, r)]]
            /\ Accept(w, r, "r_item")

\* one line: the insert of its return_items row and the SELECT of its stock_levels row
CreateReturnSelect(w) ==
  /\ pc[w] = "r_item"
  /\ LET item == loc[w].lines[loc[w].idx] IN
     \E row \in SelectLevel(w, req[w].businessId, loc[w].branch, item.productId) :
       /\ tx' = [tx EXCEPT ![w].returnItems =
                    @ \cup {ReturnItemRow(loc[w].id, loc[w].idx, item)}]
       /\ loc' = [loc EXCEPT ![w].row = row,
                             ![w].qty = IF row = 0 THEN 0 ELSE RowQuantity(w, row)]
  /\ pc' = [pc EXCEPT ![w] = "r_adjust"]
  /\ UNCHANGED <<dbVars, nextId, req, outcome, started>>

\* the same line: the UPDATE (or INSERT) of the stock_levels row and the movement
CreateReturnAdjust(w) ==
  /\ pc[w] = "r_adjust"
  /\ ~LockedByOther(w, loc[w].row)
  /\ LET item == loc[w].lines[loc[w].idx]
         b == req[w].businessId
         br == loc[w].branch
         t1 == IF loc[w].row # 0
               THEN UpdateLevel(tx[w], loc[w].row, ReturnNewQuantity(loc[w].qty, item.quantity))
               ELSE InsertLevel(tx[w], b, br, item.productId, item.quantity)
     IN tx' = [tx EXCEPT ![w] =
                 InsertMovement(t1, b, br, item.productId, "return", item.quantity,
                                <<"Return for sale", req[w].saleId>>)]
  /\ loc' = [loc EXCEPT ![w].idx = @ + 1]
  /\ pc' = [pc EXCEPT ![w] =
              IF loc[w].idx < Len(loc[w].lines) THEN "r_item" ELSE "r_commit"]
  /\ UNCHANGED <<dbVars, nextId, req, outcome, started>>

\* the callback returns: COMMIT
CreateReturnCommit(w) ==
  /\ pc[w] = "r_commit"
  /\ Commit(w, tx[w])
  /\ Finish(w, "committed")
  /\ UNCHANGED <<nextId, started>>

(* --------------------------- createStockTransfer ---------------------- *)
\* select().from(branches).where(id, businessId).limit(1) finds a row
BranchFound(br, b) == br \in Branches /\ BranchBusiness[br] = b

\* a product check that does not look at the business
ProductExists(p, b) == \E x \in products : x.id = p

\* the product check of the validation loop
ProductFound(p, b) == \E x \in products : x.id = p /\ x.businessId = b

TransferRow(id, r) ==
  [ id |-> id, businessId |-> r.businessId, fromBranchId |-> r.branchId,
    toBranchId |-> r.toBranchId, status |-> "pending" ]

TransferItemRow(id, i, item) ==
  [ transferId |-> id, line |-> i, productId |-> item.productId, quantity |-> item.quantity ]

\* the sufficiency check of one line
InsufficientStock(fromQty, qty) == fromQty < qty

\* the quantities createStockTransfer writes to the source and destination rows
TransferFromQuantity(read, q) == read - q
\* the destination is written back as read
TransferToQuantityAsRead(read, q) == read

TransferToQuantity(read, q) == read + q

\* the validation loop's checks of one line: the error thrown, "ok" when it passes
TransferLineError(item, b) ==
  IF ~ProductFound(item.productId, b) THEN "Product not found for this business"
  ELSE IF item.quantity <= 0 THEN "Invalid quantity"
  ELSE "ok"

\* the first line of the request that fails the validation loop, 0 when none does
FirstInvalidLine(r) ==
  LET bad == {i \in DOMAIN r.items : TransferLineError(r.items[i], r.businessId) # "ok"}
  IN IF bad = {} THEN 0 ELSE CHOOSE i \in bad : \A j \in bad : i <= j

\* the checks before the transaction, then BEGIN and the insert of the transfer row
CreateStockTransferBegin(w, requests) ==
  \E r \in requests :
    /\ Start(w)
    /\ IF r.items = <<>>
         THEN RejectAt(w, r, "InvalidArgument", 0, "Transfer must have at least one item")
       ELSE IF r.branchId = r.toBranchId
         THEN RejectAt(w, r, "InvalidArgument", 0, "From and to branches must be different")
       ELSE IF ~BranchFound(r.branchId, r.businessId) \/ ~BranchFound(r.toBranchId, r.businessId)
         THEN RejectAt(w, r, "InvalidArgument", 0, "Branches not found for this business")
       ELSE IF FirstInvalidLine(r) # 0
         THEN LET i == FirstInvalidLine(r) IN
              RejectAt(w, r, "InvalidArgument", i, TransferLineError(r.items[i], r.businessId))
       ELSE /\ nextId' = [nextId EXCEPT !.transfers = @ + 1]
            /\ tx' = [tx EXCEPT ![w] =
                        [EmptyTx EXCEPT !.transfers = {TransferRow(nextId.transfers, r)}]]
            /\ loc' = [loc EXCEPT ![w] = [NoLoc EXCEPT !.idx = 1, !.id = nextId.transfers]]
            /\ Accept(w, r, "t_from")

\* one line: the SELECT of the source row and the sufficiency check; a throw rolls back
CreateStockTransferSelectFrom(w) ==
  /\ pc[w] = "t_from"
  /\ LET item == req[w].items[loc[w].idx] IN
     \E row \in SelectLevel(w, req[w].businessId, req[w].branchId, item.productId) :
       LET fromQty == IF row = 0 THEN 0 ELSE RowQuantity(w, row) IN
       IF InsufficientStock(fromQty, item.quantity)
       THEN /\ Rollback(w)
            /\ Finish(w, "InsufficientStock")
       ELSE /\ loc' = [loc EXCEPT ![w].row = row, ![w].qty = fromQty]
            /\ pc' = [pc EXCEPT ![w] = "t_updFrom"]
            /\ UNCHANGED <<dbVars, req, tx, outcome>>
  /\ UNCHANGED <<nextId, started>>

\* the same line: the UPDATE of the source row
CreateStockTransferUpdateFrom(w) ==
  /\ pc[w] = "t_updFrom"
  /\ ~LockedByOther(w, loc[w].row)
  /\ LET item == req[w].items[loc[w].idx] IN
     tx' = [tx EXCEPT ![w] =
              IF loc[w].row # 0
              THEN UpdateLevel(tx[w], loc[w].row, TransferFromQuantity(loc[w].qty, item.quantity))
              ELSE tx[w]]
  /\ pc' = [pc EXCEPT ![w] = "t_to"]
  /\ UNCHANGED <<dbVars, nextId, req, loc, outcome, started>>

\* the same line: the SELECT of the destination row
CreateStockTransferSelectTo(w) ==
  /\ pc[w] = "t_to"
  /\ LET item == req[w].items[loc[w].idx] IN
     \E row \in SelectLevel(w, req[w].businessId, req[w].toBranchId, item.productId) :
       loc' = [loc EXCEPT ![w].row = row,
                          ![w].qty = IF row = 0 THEN 0 ELSE RowQuantity(w, row)]
  /\ pc' = [pc EXCEPT ![w] = "t_updTo"]
  /\ UNCHANGED <<dbVars, nextId, req, tx, outcome, started>>

\* the same line: the UPDATE (or INSERT) of the destination row, the insert of
\* the transfer item and of the two movements
CreateStockTransferUpdateTo(w) ==
  /\ pc[w] = "t_updTo"
  /\ ~LockedByOther(w, loc[w].row)
  /\ LET item == req[w].items[loc[w].idx]
         b == req[w].businessId
         from == req[w].branchId
         to == req[w].toBranchId
         t1 == IF loc[w].row # 0
               THEN UpdateLevel(tx[w], loc[w].row, TransferToQuantity(loc[w].qty, item.quantity))
               ELSE InsertLevel(tx[w], b, to, item.productId, item.quantity)
         t2 == [t1 EXCEPT !.transferItems =
                            @ \cup {TransferItemRow(loc[w].id, loc[w].idx, item)}]
         t3 == InsertMovement(t2, b, from, item.productId, "adjustment", item.quantity,
                              <<"Stock transfer out to branch", to, loc[w].id>>)
     IN tx' = [tx EXCEPT ![w] =
                 InsertMovement(t3, b, to, item.productId, "adjustment", item.quantity,
                                <<"Stock transfer in from branch", from, loc[w].id>>)]
  /\ loc' = [loc EXCEPT ![w].idx = @ + 1]
  /\ pc' = [pc EXCEPT ![w] =
              IF loc[w].idx < Len(req[w].items) THEN "t_from" ELSE "t_commit"]
  /\ UNCHANGED <<dbVars, nextId, req, outcome, started>>

\* the callback returns: COMMIT
CreateStockTransferCommit(w) ==
  /\ pc[w] = "t_commit"
  /\ Commit(w, tx[w])
  /\ Finish(w, "committed")
  /\ UNCHANGED <<nextId, started>>

(* --------------------------- failures of the store -------------------- *)
\* a statement of the open transaction fails (storage error): the callback
\* throws and db.transaction rolls back
StorageFail(w) ==
  /\ InTx(w)
  /\ Rollback(w)
  /\ Finish(w, "Internal")
  /\ UNCHANGED <<nextId, started>>

\* worker w is blocked in an UPDATE of a row whose lock another transaction holds
WaitsFor(w, o) ==
  /\ o # w
  /\ pc[w] \in {"s_adjust", "r_adjust", "t_updFrom", "t_updTo"}
  /\ loc[w].row \in LockedBy(o)

\* two transactions wait for each other: the store ends one of them with a
\* deadlock error, which the callback does not catch
DeadlockAbort(w) ==
  /\ \E o \in Workers : WaitsFor(w, o) /\ WaitsFor(o, w)
  /\ Rollback(w)
  /\ Finish(w, "Internal")
  /\ UNCHANGED <<nextId, started>>

(* ------------------------ updateStockTransferStatus ------------------ *)
TransferStatuses == {"pending", "in-transit", "received"}

\* an UPDATE that hits every transfer of the business
TransfersOfBusiness(id, b) == {t \in stockTransfers : t.businessId = b}
\* an UPDATE that hits the transfer with the id, whatever its business
TransfersWithId(id, b) == {t \in stockTransfers : t.id = id}

\* the rows of update(stockTransfers).where(id, businessId)
TransfersToUpdate(id, b) == {t \in stockTransfers : t.id = id /\ t.businessId = b}

\* an UPDATE that also swaps the source for the destination
SetStatusAndSource(t, status) == [t EXCEPT !.status = status, !.fromBranchId = t.toBranchId]

\* .set({ status })
SetStatus(t, status) == [t EXCEPT !.status = status]

\* a transfer as listStockTransfers and getStockTransferById return it
ListedTransfer(t) ==
  [ id |-> t.id, businessId |-> t.businessId, fromBranchId |-> t.fromBranchId,
    toBranchId |-> t.toBranchId, status |-> t.status,
    items |-> {[productId |-> i.productId, quantity |-> i.quantity] :
                 i \in {j \in stockTransferItems : j.transferId = t.id}} ]

\* a listing that does not look at the business
TransfersListedAnyBusiness(rows, b, br) ==
  {t \in rows : br = NoBranch \/ t.fromBranchId = br \/ t.toBranchId = br}

\* the where clause of listStockTransfers, over a set of stock_transfers rows
TransfersListed(rows, b, br) ==
  {t \in rows : /\ t.businessId = b
                /\ (br = NoBranch \/ t.fromBranchId = br \/ t.toBranchId = br)}

\* an operation that runs no transaction ends in the step it starts in
Respond(w, kind, result, id, rows) ==
  /\ Start(w)
  /\ outcome' = [outcome EXCEPT ![w] =
       [NoOutcome EXCEPT !.kind = kind, !.result = result, !.id = id, !.rows = rows]]
  /\ UNCHANGED <<nextId, pc, req, loc, tx>>

\* the UPDATE of the status (its own transaction), then the listing of the business's
\* transfers, filtered by the id
UpdateStockTransferStatus(w, ids, businesses) ==
  \E id \in ids, b \in businesses, status \in TransferStatuses :
    LET hit == TransfersToUpdate(id, b)
        after == (stockTransfers \ hit) \cup {SetStatus(t, status) : t \in hit}
    IN /\ stockTransfers' = after
       /\ UNCHANGED <<products, stockLevels, stockMovements, sales, saleItems,
                      cashRegisterEntries, returns, returnItems, stockTransferItems>>
       /\ IF hit = {}
          THEN Respond(w, "updateStockTransferStatus", "NotFound", id, {})
          ELSE Respond(w, "updateStockTransferStatus", "ok", id,
                       {ListedTransfer(t) :
                          t \in {u \in TransfersListed(after, b, NoBranch) : u.id = id}})

(* ------------------------------ audit and query ----------------------- *)
\* a read whose statements also empty the movement log
RespondAndClear(w, kind, result, id, rows) ==
  /\ Respond(w, kind, result, id, rows)
  /\ stockMovements' = <<>>
  /\ UNCHANGED <<products, stockLevels, sales, saleItems, cashRegisterEntries, returns,
                 returnItems, stockTransfers, stockTransferItems>>

\* a read: its statements are SELECTs outside any transaction
Read(w, kind, result, id, rows) ==
  /\ Respond(w, kind, result, id, rows)
  /\ UNCHANGED dbVars

\* a sale as listSales returns it
ListedSale(s) ==
  [ id |-> s.id, businessId |-> s.businessId, branchId |-> s.branchId,
    totalAmount |-> s.totalAmount, status |-> s.status,
    items |-> {[productId |-> i.productId, quantity |-> i.quantity,
                unitPrice |-> i.unitPrice, total |-> i.lineTotal] :
                 i \in {j \in saleItems : j.saleId = s.id}} ]

\* the where clause of listSales
SalesListed(b, br) ==
  {s \in sales : s.businessId = b /\ (br = NoBranch \/ s.branchId = br)}

ListSales(w, businesses, branches) ==
  \E b \in businesses, br \in branches :
    Read(w, "listSales", "ok", 0, {ListedSale(s) : s \in SalesListed(b, br)})

\* a return as listReturns and getReturnById return it
ListedReturn(r) ==
  [ id |-> r.id, saleId |-> r.saleId, businessId |-> r.businessId, branchId |-> r.branchId,
    totalAmount |-> r.totalAmount,
    items |-> {[productId |-> i.productId, quantity |-> i.quantity,
                unitPrice |-> i.unitPrice, total |-> i.lineTotal] :
                 i \in {j \in returnItems : j.returnId = r.id}} ]

\* the where clause of listReturns (saleId 0: no filter on the sale)
ReturnsListed(b, br, saleId) ==
  {r \in returns : /\ r.businessId = b
                    /\ (br = NoBranch \/ r.branchId = br)
                    /\ (saleId = 0 \/ r.saleId = saleId)}

ListReturns(w, businesses, branches, saleIds) ==
  \E b \in businesses, br \in branches, saleId \in saleIds :
    Read(w, "listReturns", "ok", 0, {ListedReturn(r) : r \in ReturnsListed(b, br, saleId)})

\* the where clause of getReturnById
ReturnsGot(id, b) == {r \in returns : r.id = id /\ r.businessId = b}

GetReturnById(w, ids, businesses) ==
  \E id \in ids, b \in businesses :
    Read(w, "getReturnById", IF ReturnsGot(id, b) = {} THEN "null" ELSE "ok", id,
         {ListedReturn(r) : r \in ReturnsGot(id, b)})

ListStockTransfers(w, businesses, branches) ==
  \E b \in businesses, br \in branches :
    Read(w, "listStockTransfers", "ok", 0,
         {ListedTransfer(t) : t \in TransfersListed(stockTransfers, b, br)})

\* the where clause of getStockTransferById
TransfersGot(id, b) == {t \in stockTransfers : t.id = id /\ t.businessId = b}

GetStockTransferById(w, ids, businesses) ==
  \E id \in ids, b \in businesses :
    Read(w, "getStockTransferById", IF TransfersGot(id, b) = {} THEN "null" ELSE "ok", id,
         {ListedTransfer(t) : t \in TransfersGot(id, b)})

(* ------------------------------ products ------------------------------ *)
\* a request body without a quantity
NoQuantity == -1
\* the quantities a product request carries: none, or 0..MaxQty
ProductQuantities == {NoQuantity} \cup 0..MaxQty

\* an operation that runs no transaction and may draw an id from a sequence
Reply(w, kind, result, id, rows) ==
  /\ Start(w)
  /\ outcome' = [outcome EXCEPT ![w] =
       [NoOutcome EXCEPT !.kind = kind, !.result = result, !.id = id, !.rows = rows]]
  /\ UNCHANGED <<pc, req, loc, tx>>

\* the products row createProduct inserts
ProductRow(id, b) == [id |-> id, businessId |-> b]

\* initialQty
InitialQty(quantity) == IF quantity # NoQuantity /\ quantity > 0 THEN quantity ELSE 0

LevelRow(b, br, p, q) == [businessId |-> b, branchId |-> br, productId |-> p, quantity |-> q]

\* createProduct: the insert of the product, then, for a user with a branch and a
\* positive quantity, the insert of its stock_levels row; rows is the row written
CreateProduct(w, businesses, branches, quantities) ==
  \E b \in businesses, br \in branches, quantity \in quantities :
    LET id == nextId.products
        initialQty == InitialQty(quantity)
        level == LevelRow(b, br, id, initialQty)
        withLevel == br # NoBranch /\ initialQty > 0
    IN /\ products' = products \cup {ProductRow(id, b)}
       /\ nextId' = [nextId EXCEPT !.products = @ + 1]
       /\ stockLevels' = IF withLevel THEN Append(stockLevels, level) ELSE stockLevels
       /\ UNCHANGED <<stockMovements, sales, saleItems, cashRegisterEntries, returns,
                      returnItems, stockTransfers, stockTransferItems>>
       /\ Reply(w, "createProduct", "ok", id, IF withLevel THEN {level} ELSE {})

\* updateProduct: the lookup of the product in the business, then, for a user with a
\* branch and a request with a quantity, the SELECT of the stock_levels row and its
\* UPDATE to the quantity, or the INSERT of a row with it; rows is the row written
UpdateProduct(w, ids, businesses, branches, quantities) ==
  \E id \in ids, b \in businesses, br \in branches, quantity \in quantities :
    /\ UNCHANGED <<products, stockMovements, sales, saleItems, cashRegisterEntries, returns,
                   returnItems, stockTransfers, stockTransferItems, nextId>>
    /\ IF ~ProductFound(id, b)
       THEN /\ stockLevels' = stockLevels
            /\ Reply(w, "updateProduct", "NotFound", id, {})
       ELSE IF br # NoBranch /\ quantity # NoQuantity
       THEN \E row \in SelectLevel(w, b, br, id) :
              /\ ~LockedByOther(w, row)
              /\ stockLevels' = IF row # 0
                                THEN [stockLevels EXCEPT ![row].quantity = quantity]
                                ELSE Append(stockLevels, LevelRow(b, br, id, quantity))
              /\ Reply(w, "updateProduct", "ok", id, {LevelRow(b, br, id, quantity)})
       ELSE /\ stockLevels' = stockLevels
            /\ Reply(w, "updateProduct", "ok", id, {})

\* sale_items.product_id is declared onDelete restrict
DeleteRestricted(id) == \E i \in saleItems : i.productId = id

\* deleteProduct: the DELETE of the product of the business; the store refuses it
\* while a sale_items row refers to the product, and otherwise deletes with it the
\* stock_levels and stock_movements rows that refer to it (onDelete cascade).  Row ids
\* are positions here, so the step is taken while no transaction is open.
DeleteProduct(w, ids, businesses) ==
  \E id \in ids, b \in businesses :
    /\ \A v \in Workers : tx[v] = EmptyTx
    /\ UNCHANGED <<sales, saleItems, cashRegisterEntries, returns, returnItems,
                   stockTransfers, stockTransferItems, nextId>>
    /\ IF ~ProductFound(id, b)
       THEN /\ UNCHANGED <<products, stockLevels, stockMovements>>
            /\ Reply(w, "deleteProduct", "NotFound", id, {})
       ELSE IF DeleteRestricted(id)
       THEN /\ UNCHANGED <<products, stockLevels, stockMovements>>
            /\ Reply(w, "deleteProduct", "Internal", id, {})
       ELSE /\ products' = {x \in products : x.id # id}
            /\ stockLevels' = SelectSeq(stockLevels, LAMBDA r : r.productId # id)
            /\ stockMovements' = SelectSeq(stockMovements, LAMBDA m : m.productId # id)
            /\ Reply(w, "deleteProduct", "ok", id, {})

(* --------------------------- specifications --------------------------- *)
\* request lists: none, or up to MaxItems lines
SaleLists(productIds) == {<<>>} \cup SeqsUpTo(SaleLines(productIds), MaxItems)
QtyLists(productIds) == {<<>>} \cup SeqsUpTo(QtyLines(productIds), MaxItems)
\* one line of product 1
OneSaleLine == [1..1 -> SaleLines({1})]
OneQtyLine == [1..1 -> QtyLines({1})]

\* one worker: the operations run one after the other, with full request lists
NextSeq ==
  \E w \in {1} :
    \/ CreateSaleBegin(w, SaleRequests({1}, SaleLists({1, 2}), {NULL}))
    \/ CreateSaleSelect(w)
    \/ CreateSaleAdjust(w)
    \/ CreateSaleCommit(w)
    \/ CreateReturnBegin(w, ReturnRequests({1, 2}, {NoBranch, 1, 2}, QtyLists({1, 2})))
    \/ CreateReturnSelect(w)
    \/ CreateReturnAdjust(w)
    \/ CreateReturnCommit(w)
    \/ CreateStockTransferBegin(w, TransferRequests({1, 2, 4}, QtyLists({1, 2, 3})))
    \/ CreateStockTransferSelectFrom(w)
    \/ CreateStockTransferUpdateFrom(w)
    \/ CreateStockTransferSelectTo(w)
    \/ CreateStockTransferUpdateTo(w)
    \/ CreateStockTransferCommit(w)
    \/ StorageFail(w)

SpecSeq == Init /\ [][NextSeq]_vars

\* the workers run in parallel, each request one line of product 1
Next ==
  \E w \in Workers :
    \/ CreateSaleBegin(w, SaleRequests({1}, OneSaleLine, OfflineIds))
    \/ CreateSaleSelect(w)
    \/ CreateSaleAdjust(w)
    \/ CreateSaleCommit(w)
    \/ CreateReturnBegin(w, ReturnRequests({1}, {NoBranch}, OneQtyLine))
    \/ CreateReturnSelect(w)
    \/ CreateReturnAdjust(w)
    \/ CreateReturnCommit(w)
    \/ CreateStockTransferBegin(w, TransferRequests({1, 2}, OneQtyLine))
    \/ CreateStockTransferSelectFrom(w)
    \/ CreateStockTransferUpdateFrom(w)
    \/ CreateStockTransferSelectTo(w)
    \/ CreateStockTransferUpdateTo(w)
    \/ CreateStockTransferCommit(w)
    \/ DeadlockAbort(w)

Spec == Init /\ [][Next]_vars

\* only transfers, in parallel, between branches 1 and 2
NextTransfers ==
  \E w \in Workers :
    \/ CreateStockTransferBegin(w, TransferRequests({1, 2}, OneQtyLine))
    \/ CreateStockTransferSelectFrom(w)
    \/ CreateStockTransferUpdateFrom(w)
    \/ CreateStockTransferSelectTo(w)
    \/ CreateStockTransferUpdateTo(w)
    \/ CreateStockTransferCommit(w)
    \/ DeadlockAbort(w)

SpecTransfers == Init /\ [][NextTransfers]_vars

\* unit prices with two and with three decimals (1.50 and 1.004), in thousandths;
\* no product or sum of them over the request lists below lies halfway between
\* two hundredths, where toFixed(2) depends on the binary representation
ExamplePrices == {1500, 1004}

\* sales of product 1: one line of one or three units at either price, or one unit
\* at each price on two lines
ExampleSaleLists ==
  [1..1 -> [productId : {1}, quantity : {1, 3}, unitPrice : ExamplePrices]]
    \cup {<<[productId |-> 1, quantity |-> 1, unitPrice |-> 1500],
             [productId |-> 1, quantity |-> 1, unitPrice |-> 1004]>>}

\* one worker at branch 1: sales of product 1 and returns against them
NextExample ==
  \E w \in {1} :
    \/ CreateSaleBegin(w, SaleRequests({1}, ExampleSaleLists, {NULL}))
    \/ CreateSaleSelect(w)
    \/ CreateSaleAdjust(w)
    \/ CreateSaleCommit(w)
    \/ CreateReturnBegin(w, ReturnRequests({1, 2}, {NoBranch}, SeqsUpTo(QtyLines({1}), MaxItems)))
    \/ CreateReturnSelect(w)
    \/ CreateReturnAdjust(w)
    \/ CreateReturnCommit(w)

SpecExample == InitExample /\ [][NextExample]_vars

\* one line of one unit of a product of either business
ScopedSaleLine == [1..1 -> [productId : {1, 3}, quantity : {1}, unitPrice : Prices]]
ScopedQtyLine == [1..1 -> [productId : {1, 3}, quantity : {1}, unitPrice : {0}]]
\* the ids and the branch filters the status updates and the reads are called with
\* the item lists of the transfer requests: also the empty list and a line of no unit
ScopedTransferLists ==
  ScopedQtyLine \cup {<<>>} \cup [1..1 -> [productId : {1}, quantity : {0}, unitPrice : {0}]]
ScopedIds == {1, 2}
ScopedBranches == {NoBranch, 1}

\* one worker serves the users of both businesses, who may name any branch and any
\* product; the status updates and the reads run between the writes
NextScoped ==
  \E w \in {1} : \E b \in Businesses :
    \/ CreateSaleBegin(w, OfBusiness(b, SaleRequests({1, 4}, ScopedSaleLine, {NULL})))
    \/ CreateSaleSelect(w)
    \/ CreateSaleAdjust(w)
    \/ CreateSaleCommit(w)
    \/ CreateReturnBegin(w, OfBusiness(b, ReturnRequests({1}, {NoBranch, 4}, ScopedQtyLine)))
    \/ CreateReturnSelect(w)
    \/ CreateReturnAdjust(w)
    \/ CreateReturnCommit(w)
    \/ CreateStockTransferBegin(w, OfBusiness(b, TransferRequests({1, 2, 4, 5},
                                                                  ScopedTransferLists)))
    \/ CreateStockTransferSelectFrom(w)
    \/ CreateStockTransferUpdateFrom(w)
    \/ CreateStockTransferSelectTo(w)
    \/ CreateStockTransferUpdateTo(w)
    \/ CreateStockTransferCommit(w)
    \/ UpdateStockTransferStatus(w, ScopedIds, {b})
    \/ ListSales(w, {b}, ScopedBranches)
    \/ ListReturns(w, {b}, ScopedBranches, {0, 1})
    \/ GetReturnById(w, ScopedIds, {b})
    \/ ListStockTransfers(w, {b}, ScopedBranches)
    \/ GetStockTransferById(w, ScopedIds, {b})

SpecScoped == Init /\ [][NextScoped]_vars

\* the first product createProduct creates
NewProduct == Len(ProductBusiness) + 1
\* the products the product requests and the sales name, and the user's branch
ProductIds == {1, 2, NewProduct}
ProductBranches == {NoBranch, 1}
ProductSaleLine == [1..1 -> [productId : {2, NewProduct}, quantity : {1}, unitPrice : Prices]]
ProductQtyLine == [1..1 -> [productId : {2, NewProduct}, quantity : {1}, unitPrice : {0}]]

\* one worker: products are created, updated and deleted between sales and returns
NextProducts ==
  \E w \in {1} :
    \/ CreateProduct(w, {1}, ProductBranches, ProductQuantities)
    \/ UpdateProduct(w, ProductIds, Businesses, ProductBranches, ProductQuantities)
    \/ DeleteProduct(w, ProductIds, Businesses)
    \/ CreateSaleBegin(w, SaleRequests({1}, ProductSaleLine, {NULL}))
    \/ CreateSaleSelect(w)
    \/ CreateSaleAdjust(w)
    \/ CreateSaleCommit(w)
    \/ CreateReturnBegin(w, ReturnRequests({1}, {NoBranch}, ProductQtyLine))
    \/ CreateReturnSelect(w)
    \/ CreateReturnAdjust(w)
    \/ CreateReturnCommit(w)

SpecProducts == Init /\ [][NextProducts]_vars

\* the workers run in parallel on a store where only branch 1 has a row of product 1:
\* the sales at branch 2 and the transfers to it make the first movement on its key
NextFirst ==
  \E w \in Workers :
    \/ CreateSaleBegin(w, SaleRequests({2}, OneSaleLine, {NULL}))
    \/ CreateSaleSelect(w)
    \/ CreateSaleAdjust(w)
    \/ CreateSaleCommit(w)
    \/ CreateStockTransferBegin(w, TransferRequests({1, 2}, OneQtyLine))
    \/ CreateStockTransferSelectFrom(w)
    \/ CreateStockTransferUpdateFrom(w)
    \/ CreateStockTransferSelectTo(w)
    \/ CreateStockTransferUpdateTo(w)
    \/ CreateStockTransferCommit(w)
    \/ DeadlockAbort(w)

SpecFirst == InitExample /\ [][NextFirst]_vars

\* one worker: transfers of product 1 between branches 1 and 2, of up to MaxItems lines
NextLines ==
  \E w \in {1} :
    \/ CreateStockTransferBegin(w, TransferRequests({1, 2}, SeqsUpTo(QtyLines({1}), MaxItems)))
    \/ CreateStockTransferSelectFrom(w)
    \/ CreateStockTransferUpdateFrom(w)
    \/ CreateStockTransferSelectTo(w)
    \/ CreateStockTransferUpdateTo(w)
    \/ CreateStockTransferCommit(w)

SpecLines == Init /\ [][NextLines]_vars

(* ------------------------------ properties ---------------------------- *)
AllKeys == [businessId : Businesses, branchId : Branches, productId : Products]

LevelRows(levels, k) == {i \in DOMAIN levels : RowKey(levels[i]) = k}

\* the quantity of a key: that of its row, 0 when it has none yet
QuantityIn(levels, k) ==
  LET rows == LevelRows(levels, k) IN SumSet(rows, [i \in rows |-> levels[i].quantity])

SaleById(id) == CHOOSE s \in sales : s.id = id
ReturnById(id) == CHOOSE r \in returns : r.id = id
TransferById(id) == CHOOSE t \in stockTransfers : t.id = id

\* the sum of the deltas of the committed sales, returns and transfers on key k
CommittedDelta(k) ==
  LET sold == {i \in saleItems : /\ i.productId = k.productId
                                 /\ SaleById(i.saleId).businessId = k.businessId
                                 /\ SaleById(i.saleId).branchId = k.branchId}
      back == {i \in returnItems : /\ i.productId = k.productId
                                   /\ ReturnById(i.returnId).businessId = k.businessId
                                   /\ ReturnById(i.returnId).branchId = k.branchId}
      out == {i \in stockTransferItems :
                /\ i.productId = k.productId
                /\ TransferById(i.transferId).businessId = k.businessId
                /\ TransferById(i.transferId).fromBranchId = k.branchId}
      in == {i \in stockTransferItems :
               /\ i.productId = k.productId
               /\ TransferById(i.transferId).businessId = k.businessId
               /\ TransferById(i.transferId).toBranchId = k.branchId}
  IN SumSet(back, [i \in back |-> i.quantity]) - SumSet(sold, [i \in sold |-> i.quantity])
     + SumSet(in, [i \in in |-> i.quantity]) - SumSet(out, [i \in out |-> i.quantity])

\* C1: no lost updates: the committed quantity of every key is its initial quantity
\* plus the sum of the deltas of all committed sales, returns and transfers on it
NoLostUpdates ==
  \A k \in AllKeys :
    QuantityIn(stockLevels, k) = QuantityIn(InitLevels, k) + CommittedDelta(k)

MovementTypes == {"purchase", "sale", "adjustment", "return", "opening_balance"}

MovementsOf(k) == {i \in DOMAIN stockMovements : RowKey(stockMovements[i]) = k}

\* C2: conservation: there is a sign for each movement type under which the quantity
\* of every key is the signed sum of the movement rows of the key
Conservation ==
  \E sign \in [MovementTypes -> {-1, 1}] :
    \A k \in AllKeys :
      QuantityIn(stockLevels, k) =
        SumSet(MovementsOf(k),
               [i \in MovementsOf(k) |->
                  sign[stockMovements[i].type] * stockMovements[i].quantity])

\* the quantity of product p sold on sale s, and returned against it
SoldQuantity(s, p) ==
  LET rows == {i \in saleItems : i.saleId = s /\ i.productId = p}
  IN SumSet(rows, [i \in rows |-> i.quantity])

ReturnedQuantity(s, p) ==
  LET rows == {i \in returnItems : ReturnById(i.returnId).saleId = s /\ i.productId = p}
  IN SumSet(rows, [i \in rows |-> i.quantity])

\* C3: return bound: for every sale and product, the quantity returned over all
\* returns of the sale is at most the quantity sold on it
ReturnBound ==
  \A s \in sales : \A p \in Products : ReturnedQuantity(s.id, p) <= SoldQuantity(s.id, p)

ReturnedBy(r, p) ==
  LET rows == {i \in returnItems : i.returnId = r /\ i.productId = p}
  IN SumSet(rows, [i \in rows |-> i.quantity])

\* C4: no two returns against the same sale are both committed when their
\* combined quantity of a product exceeds the quantity sold
NoConcurrentOverReturn ==
  \A r1 \in returns : \A r2 \in returns : \A p \in Products :
    (r1.id # r2.id /\ r1.saleId = r2.saleId) =>
      ReturnedBy(r1.id, p) + ReturnedBy(r2.id, p) <= SoldQuantity(r1.saleId, p)

\* C5: idempotent retry: a business has at most one sale per non-null offlineId,
\* and so one set of stock decrements
IdempotentRetry ==
  \A s1 \in sales : \A s2 \in sales :
    (s1.businessId = s2.businessId /\ s1.offlineId # NULL /\ s1.offlineId = s2.offlineId)
      => s1.id = s2.id

\* worker w takes the step
Stepped(w) == <<pc[w], loc[w], tx[w], outcome[w]>>' # <<pc[w], loc[w], tx[w], outcome[w]>>

\* the step ends worker w's open transaction with the given result
Ends(w, result) == pc[w] # "idle" /\ pc'[w] = "idle" /\ outcome'[w].result = result

\* the step is the COMMIT of worker w's transaction
Commits(w) == Ends(w, "committed")

\* the quantity the lines of a request take from (delta -1) or add to (delta 1) a product
LinesQuantity(items, p) ==
  SumSeq([i \in DOMAIN items |-> IF items[i].productId = p THEN items[i].quantity ELSE 0])

CountMovements(log, type) == Cardinality({i \in DOMAIN log : log[i].type = type})

\* a committed sale has its lines 1..n (n >= 1) and exactly one register entry
SaleComplete(s) ==
  /\ Cardinality({c \in cashRegisterEntries : c.saleId = s.id}) = 1
  /\ \E n \in 1..MaxItems + 1 : {i.line : i \in {j \in saleItems : j.saleId = s.id}} = 1..n

\* no row of a sale attempt that did not commit exists
SaleAbsent(id) ==
  /\ \A s \in sales : s.id # id
  /\ \A i \in saleItems : i.saleId # id
  /\ \A c \in cashRegisterEntries : c.saleId # id

\* C6: sale atomicity: a createSale that fails leaves no Sale, SaleItem, StockMovement or
\* CashRegisterEntry and every StockLevel as before; a createSale changes the committed
\* rows only by its COMMIT, which applies all its lines, so no partial sale is observable
SaleAtomicity ==
  /\ [](/\ \A s \in sales : SaleComplete(s)
        /\ \A i \in saleItems : \E s \in sales : s.id = i.saleId
        /\ CountMovements(stockMovements, "sale") = Cardinality(saleItems)
        /\ \A w \in Workers :
             (outcome[w].kind = "sale" /\ outcome[w].result # "committed"
                /\ outcome[w].id # 0) => SaleAbsent(outcome[w].id))
  /\ [][\A w \in Workers :
          (req[w].kind = "sale" /\ Stepped(w)) =>
            IF Commits(w)
            THEN /\ \A k \in AllKeys :
                      QuantityIn(stockLevels', k) =
                        QuantityIn(stockLevels, k) -
                          (IF k.businessId = req[w].businessId /\ k.branchId = req[w].branchId
                           THEN LinesQuantity(req[w].items, k.productId) ELSE 0)
                 /\ Cardinality(saleItems') = Cardinality(saleItems) + Len(req[w].items)
                 /\ Len(stockMovements') = Len(stockMovements) + Len(req[w].items)
            ELSE UNCHANGED dbVars]_vars

\* a sale failed after the stock adjustment of its first line, and nothing of it is left
SaleRolledBackWitness ==
  \E w \in Workers :
    /\ outcome[w].kind = "sale" /\ outcome[w].result = "Internal" /\ outcome[w].line = 2
    /\ stockLevels = InitLevels /\ sales = {} /\ nextId.sales = 2

\* C7: transfer balance: the COMMIT of a createStockTransfer of lines (P, Q) from A to B
\* takes exactly Q from (A, P) and adds exactly Q to (B, P) and changes no other key;
\* no other step of the transfer changes a StockLevel
TransferBalance ==
  [][\A w \in Workers :
       (req[w].kind = "transfer" /\ Stepped(w)) =>
         IF Commits(w)
         THEN \A k \in AllKeys :
                QuantityIn(stockLevels', k) =
                  QuantityIn(stockLevels, k)
                  - (IF k.businessId = req[w].businessId /\ k.branchId = req[w].branchId
                     THEN LinesQuantity(req[w].items, k.productId) ELSE 0)
                  + (IF k.businessId = req[w].businessId /\ k.branchId = req[w].toBranchId
                     THEN LinesQuantity(req[w].items, k.productId) ELSE 0)
         ELSE stockLevels' = stockLevels]_vars

\* a transfer committed and moved stock between two branches
TransferCommittedWitness ==
  \E w \in Workers :
    /\ outcome[w].kind = "transfer" /\ outcome[w].result = "committed"
    /\ stockTransferItems # {}
    /\ stockLevels # InitLevels

TransferAbsent(id) ==
  /\ \A t \in stockTransfers : t.id # id
  /\ \A i \in stockTransferItems : i.transferId # id

\* C8: a createStockTransfer one of whose lines fails the sufficiency check aborts as a
\* whole: the step leaves every committed row as it was and drops the writes of the
\* earlier lines, and no StockTransfer or StockTransferItem of it ever exists
TransferAbort ==
  /\ [](\A w \in Workers :
          (outcome[w].kind = "transfer" /\ outcome[w].result = "InsufficientStock")
            => TransferAbsent(outcome[w].id))
  /\ [][\A w \in Workers :
          (req[w].kind = "transfer" /\ Ends(w, "InsufficientStock")) =>
            /\ UNCHANGED dbVars
            /\ tx'[w] = EmptyTx]_vars

\* a transfer failed the sufficiency check at its second line, after the stock
\* changes of its first line
TransferAbortedWitness ==
  \E w \in Workers :
    /\ outcome[w].kind = "transfer" /\ outcome[w].result = "InsufficientStock"
    /\ outcome[w].line = 2

\* C9: transfers never oversell: no committed StockLevel quantity is below zero, and a
\* transfer line decrements its source row only when the row's quantity at that
\* moment is at least the requested quantity
TransfersNeverOversell ==
  /\ [](\A i \in DOMAIN stockLevels : stockLevels[i].quantity >= 0)
  /\ [][\A w \in Workers :
          (pc[w] = "t_updFrom" /\ pc'[w] = "t_to" /\ loc[w].row # 0) =>
            RowQuantity(w, loc[w].row) >= req[w].items[loc[w].idx].quantity]_vars

\* C10: deadlock freedom: StockLevel rows are locked in one fixed order, so no two
\* transfers ever wait for a row lock that the other holds
NoMutualWait ==
  \A w \in Workers : \A o \in Workers : ~(WaitsFor(w, o) /\ WaitsFor(o, w))

\* the branch and the product belong to business b
InBusiness(b, br, p) ==
  /\ br \in Branches /\ BranchBusiness[br] = b
  /\ p \in Products /\ ProductBusiness[p] = b

\* some line of the request asks for more than is left to return of its product
\* (sold on the sale minus returned against it), or nothing of it is left
ExceedsRemaining(r) ==
  \E i \in DOMAIN r.items :
    LET p == r.items[i].productId
        remaining == SoldQuantity(r.saleId, p) - ReturnedQuantity(r.saleId, p)
    IN remaining <= 0 \/ r.items[i].quantity > remaining

\* C11: a createReturn request one of whose lines exceeds the remaining returnable
\* quantity of its product, or whose product has nothing left to return, is rejected
\* and leaves every StockLevel, StockMovement, Return and ReturnItem (and every other
\* committed row) unchanged, whatever its other lines are: createReturn opens its
\* transaction only for a request none of whose lines exceeds, and the step that
\* rejects a request changes no row, takes no id and opens no transaction
ReturnRejection ==
  [][\A w \in Workers :
       (pc[w] = "idle" /\ started' # started) =>
         /\ (pc'[w] # "idle" /\ req'[w].kind = "return") => ~ExceedsRemaining(req'[w])
         /\ (pc'[w] = "idle" /\ outcome'[w].kind = "return") =>
              /\ outcome'[w].result \in {"InvalidArgument", "NotFound"}
              /\ UNCHANGED <<dbVars, nextId, tx>>]_vars

\* a return was rejected at its second line, which asked for more than was left,
\* after its first line had passed, and with an earlier return committed
ReturnRejectedWitness ==
  \E w \in Workers :
    /\ outcome[w].kind = "return" /\ outcome[w].result = "InvalidArgument"
    /\ outcome[w].error = "Cannot return" /\ outcome[w].line = 2
    /\ returns # {}

\* C12: business isolation on writes: every StockLevel, StockMovement, SaleItem and
\* StockTransferItem row refers to a branch and a product of the row's business (for an
\* item, the business and branch of its sale or transfer), so an operation invoked
\* for one business with a branch or product of another writes nothing
WriteIsolation ==
  /\ \A i \in DOMAIN stockLevels :
       InBusiness(stockLevels[i].businessId, stockLevels[i].branchId, stockLevels[i].productId)
  /\ \A i \in DOMAIN stockMovements :
       InBusiness(stockMovements[i].businessId, stockMovements[i].branchId,
                  stockMovements[i].productId)
  /\ \A i \in saleItems :
       InBusiness(SaleById(i.saleId).businessId, SaleById(i.saleId).branchId, i.productId)
  /\ \A i \in stockTransferItems :
       /\ InBusiness(TransferById(i.transferId).businessId,
                     TransferById(i.transferId).fromBranchId, i.productId)
       /\ InBusiness(TransferById(i.transferId).businessId,
                     TransferById(i.transferId).toBranchId, i.productId)

\* the change of a StockLevel that a movement row records: the row holds the
\* magnitude, and its type gives the direction (createSale subtracts the quantity of
\* the sale movement it writes, createReturn adds that of the return movement)
MovementDelta(m) == IF m.type = "sale" THEN -m.quantity ELSE m.quantity

MovementsOfType(type) == {i \in DOMAIN stockMovements : stockMovements[i].type = type}

ExampleKey == KeyOf(1, 1, 1)

\* the committed rows are those of one sale of 3 units of the product
ExampleSold ==
  /\ Cardinality(sales) = 1
  /\ Cardinality(saleItems) = 1
  /\ \A i \in saleItems : i.productId = 1 /\ i.quantity = 3

\* the return request for 2 units against that sale
ExampleReturnRequest ==
  [ kind |-> "return", businessId |-> 1, branchId |-> NoBranch, toBranchId |-> 0, saleId |-> 1,
    items |-> <<[productId |-> 1, quantity |-> 2, unitPrice |-> 0]>>, totalAmount |-> 0,
    offlineId |-> NULL ]

\* ... and of one return of 2 units against it
ExampleReturned ==
  /\ ExampleSold
  /\ Cardinality(returns) = 1
  /\ Cardinality(returnItems) = 1
  /\ \A i \in returnItems : i.productId = 1 /\ i.quantity = 2

\* C13: the example scenario: from 10 units, a sale of 3 leaves stock 7 with one Sale,
\* one SaleItem, one CashRegisterEntry and one movement of type sale recording -3 (the
\* row holds quantity 3 under type sale); a return of 2 against the sale leaves stock 9
\* with one Return, one ReturnItem and one movement of type return recording +2; a
\* following return request for 2 more units fails InvalidArgument and leaves stock at 9
ExampleScenario ==
  /\ []((ExampleSold /\ returns = {}) =>
          /\ QuantityIn(stockLevels, ExampleKey) = 7
          /\ Cardinality(cashRegisterEntries) = 1
          /\ Cardinality(MovementsOfType("sale")) = 1
          /\ \A i \in MovementsOfType("sale") :
               /\ RowKey(stockMovements[i]) = ExampleKey
               /\ stockMovements[i].quantity = 3
               /\ MovementDelta(stockMovements[i]) = -3
          /\ MovementsOfType("return") = {})
  /\ [](ExampleReturned =>
          /\ QuantityIn(stockLevels, ExampleKey) = 9
          /\ Cardinality(cashRegisterEntries) = 1
          /\ Cardinality(MovementsOfType("sale")) = 1
          /\ Cardinality(MovementsOfType("return")) = 1
          /\ \A i \in MovementsOfType("return") :
               /\ RowKey(stockMovements[i]) = ExampleKey
               /\ MovementDelta(stockMovements[i]) = 2)
  /\ [][\A w \in Workers :
          (ExampleReturned /\ CreateReturnBegin(w, {ExampleReturnRequest})) =>
            /\ pc'[w] = "idle"
            /\ outcome'[w].kind = "return" /\ outcome'[w].result = "InvalidArgument"
            /\ UNCHANGED dbVars
            /\ QuantityIn(stockLevels', ExampleKey) = 9]_vars

\* the whole scenario has run: the sale, the return, and the rejected second return
ExampleScenarioWitness ==
  /\ ExampleReturned
  /\ QuantityIn(stockLevels, ExampleKey) = 9
  /\ started = 3
  /\ \E w \in Workers :
       /\ outcome[w].kind = "return" /\ outcome[w].result = "InvalidArgument"
       /\ outcome[w].error = "Cannot return" /\ outcome[w].line = 1

\* C14: oversell policy: createSale never rejects a sale because stock is insufficient:
\* once its transaction is open, the adjustment of a line can be taken whatever the
\* row holds, and the sale ends only by its COMMIT or by a failure of the store; the
\* COMMIT of a sale of quantity q of a product leaves the key's quantity at its previous
\* value minus q, also when that was below q, and on a key with no StockLevel row it
\* creates the one row of the key with quantity -q
OversellPolicy ==
  /\ [](\A w \in Workers :
          (pc[w] = "s_adjust" /\ ~LockedByOther(w, loc[w].row)) => ENABLED CreateSaleAdjust(w))
  /\ [][\A w \in Workers :
          (req[w].kind = "sale" /\ pc[w] # "idle" /\ pc'[w] = "idle") =>
            /\ outcome'[w].result \in {"committed", "Internal"}
            /\ Commits(w) =>
                 \A i \in DOMAIN req[w].items :
                   LET k == KeyOf(req[w].businessId, req[w].branchId, req[w].items[i].productId)
                       q == LinesQuantity(req[w].items, k.productId)
                   IN /\ QuantityIn(stockLevels', k) = QuantityIn(stockLevels, k) - q
                      /\ LevelRows(stockLevels, k) = {} =>
                           /\ Cardinality(LevelRows(stockLevels', k)) = 1
                           /\ \A j \in LevelRows(stockLevels', k) :
                                stockLevels'[j].quantity = -q]_vars

\* a sale committed on a key that held less than it sold, and a sale created the row
\* of a key that had none: both quantities are below zero
OversoldWitness ==
  /\ \E w \in Workers : outcome[w].kind = "sale" /\ outcome[w].result = "committed"
  /\ QuantityIn(stockLevels, KeyOf(1, 1, 1)) < 0
  /\ LevelRows(stockLevels, KeyOf(1, 1, 2)) # {}
  /\ QuantityIn(stockLevels, KeyOf(1, 1, 2)) < 0

\* the step is a whole operation of worker w that opens no transaction
Answers(w, kinds) ==
  /\ pc[w] = "idle" /\ pc'[w] = "idle" /\ started' # started
  /\ outcome'[w].kind \in kinds

\* C15: updateStockTransferStatus changes only the status field of the one addressed
\* StockTransfer: every StockLevel, StockMovement and StockTransferItem (and every sale
\* and return row) and every other StockTransfer is unchanged, and the addressed
\* transfer keeps every field but its status, whatever the old and new status are
StatusUpdateFrame ==
  [][\A w \in Workers :
       Answers(w, {"updateStockTransferStatus"}) =>
         /\ UNCHANGED <<products, stockLevels, stockMovements, stockTransferItems, sales,
                        saleItems, cashRegisterEntries, returns, returnItems, nextId, tx>>
         /\ Cardinality(stockTransfers') = Cardinality(stockTransfers)
         /\ \A t \in stockTransfers :
              IF t.id = outcome'[w].id
              THEN \E status \in TransferStatuses : SetStatus(t, status) \in stockTransfers'
              ELSE t \in stockTransfers']_vars

\* a status update succeeded on one of two transfers: it has left pending, the other
\* one is still pending
StatusUpdatedWitness ==
  /\ \E w \in Workers :
       /\ outcome[w].kind = "updateStockTransferStatus" /\ outcome[w].result = "ok"
       /\ \E t \in stockTransfers : t.id = outcome[w].id /\ t.status # "pending"
       /\ \E t \in stockTransfers : t.id # outcome[w].id /\ t.status = "pending"
  /\ stockTransferItems # {}

\* the place of a status on the way pending, in-transit, received
StatusRank(status) ==
  CASE status = "pending" -> 1 [] status = "in-transit" -> 2 [] status = "received" -> 3

\* C16: a StockTransfer is created with status pending, and its status is monotonic along
\* pending, in-transit, received: no step moves it back to an earlier status
StatusMonotonic ==
  [][/\ \A u \in stockTransfers' :
          (\A t \in stockTransfers : t.id # u.id) => u.status = "pending"
     /\ \A t \in stockTransfers : \A u \in stockTransfers' :
          u.id = t.id => StatusRank(u.status) >= StatusRank(t.status)]_vars

ReadKinds ==
  {"listSales", "listReturns", "getReturnById", "listStockTransfers", "getStockTransferById"}

\* C17: the read operations listSales, listReturns, getReturnById, listStockTransfers and
\* getStockTransferById have no write effect: every StockLevel, StockMovement, Sale,
\* Return and StockTransfer row (and every other row) is the same after the call
ReadsFrame ==
  [][\A w \in Workers : Answers(w, ReadKinds) => UNCHANGED <<dbVars, nextId, tx>>]_vars

\* a read returned rows from a store that holds sales, a return and movements
ReadWitness ==
  /\ \E w \in Workers : outcome[w].kind = "getReturnById" /\ outcome[w].rows # {}
  /\ sales # {} /\ returns # {}
  /\ Len(stockMovements) > Len(InitMovements)

\* C18: business scoping of reads and status updates: listSales, listReturns,
\* listStockTransfers, getReturnById and getStockTransferById called for business b
\* return only rows whose businessId is b, and updateStockTransferStatus called for b
\* with the id of a transfer of another business fails NotFound and leaves that
\* transfer as it was
ReadScoping ==
  [][\A w \in Workers : \A b \in Businesses :
       /\ (Answers(w, ReadKinds) /\
             \/ ListSales(w, {b}, ScopedBranches)
             \/ ListReturns(w, {b}, ScopedBranches, {0, 1})
             \/ GetReturnById(w, ScopedIds, {b})
             \/ ListStockTransfers(w, {b}, ScopedBranches)
             \/ GetStockTransferById(w, ScopedIds, {b}))
            => \A row \in outcome'[w].rows : row.businessId = b
       /\ (Answers(w, {"updateStockTransferStatus"}) /\
             UpdateStockTransferStatus(w, ScopedIds, {b}))
            => /\ \A row \in outcome'[w].rows : row.businessId = b
               /\ \A t \in stockTransfers :
                    (t.id = outcome'[w].id /\ t.businessId # b) =>
                      /\ outcome'[w].result = "NotFound"
                      /\ t \in stockTransfers']_vars

\* with transfers of both businesses in the store, a status update that named a
\* transfer of the other business was answered NotFound
UpdateRefusedWitness ==
  /\ \E w \in Workers :
       /\ outcome[w].kind = "updateStockTransferStatus" /\ outcome[w].result = "NotFound"
       /\ \E t \in stockTransfers : t.id = outcome[w].id /\ t.status = "pending"
  /\ \A b \in Businesses : \E t \in stockTransfers : t.businessId = b

\* C19: in every committed state each Sale has at least one SaleItem and exactly one
\* CashRegisterEntry, the entry's amount equals the Sale's totalAmount, each SaleItem's
\* lineTotal equals its quantity times its unitPrice, and the Sale's status is completed
SaleShape ==
  \A s \in sales :
    /\ \E i \in saleItems : i.saleId = s.id
    /\ Cardinality({c \in cashRegisterEntries : c.saleId = s.id}) = 1
    /\ \A c \in cashRegisterEntries : c.saleId = s.id => c.amount = s.totalAmount
    /\ \A i \in saleItems : i.saleId = s.id => i.lineTotal = i.quantity * i.unitPrice
    /\ s.status = "completed"

\* C20: each ReturnItem's unit price equals the unit price of that product on the
\* original sale, never a value taken from the request; its line total is that price
\* times the returned quantity, and the Return's totalAmount is the sum of the line
\* totals of its items
ReturnPricing ==
  \A r \in returns :
    LET items == {i \in returnItems : i.returnId = r.id} IN
    /\ \A i \in items :
         /\ \E si \in saleItems :
              si.saleId = r.saleId /\ si.productId = i.productId /\ si.unitPrice = i.unitPrice
         /\ i.lineTotal = i.unitPrice * i.quantity
    /\ r.totalAmount = SumSet(items, [i \in items |-> i.lineTotal])

\* two units were returned on one line against a sale made at 1.004 a unit, whose
\* sale item holds the price 1.00
ReturnPricedWitness ==
  \E r \in returns : \E i \in returnItems :
    /\ i.returnId = r.id /\ i.quantity = 2 /\ i.unitPrice = 1000
    /\ r.totalAmount = 2000

\* C21: every Return has the branch of its Sale, and the commit of a return adds the
\* returned quantities to the StockLevel keys of that branch, changes no other key, and
\* appends one movement of type return per line, all of that branch, also when the
\* request names no branch
ReturnBranch ==
  /\ [](\A r \in returns : r.branchId = SaleById(r.saleId).branchId)
  /\ [][\A w \in Workers :
         (Commits(w) /\ req[w].kind = "return") =>
           LET sale == SaleById(req[w].saleId)
               new == SubSeq(stockMovements', Len(stockMovements) + 1, Len(stockMovements'))
           IN /\ Len(new) = Len(req[w].items)
              /\ \A i \in DOMAIN new :
                   /\ new[i].type = "return"
                   /\ new[i].businessId = req[w].businessId
                   /\ new[i].branchId = sale.branchId
                   /\ new[i].productId = req[w].items[i].productId
              /\ \A k \in AllKeys :
                   QuantityIn(stockLevels', k) - QuantityIn(stockLevels, k) =
                     IF k.businessId = req[w].businessId /\ k.branchId = sale.branchId
                     THEN LinesQuantity(req[w].items, k.productId)
                     ELSE 0]_vars

\* a return of a sale of branch 1 has committed; its request named no branch, as the
\* only branch a request names here is branch 4
ReturnBranchWitness ==
  \E w \in Workers :
    /\ outcome[w].kind = "return" /\ outcome[w].result = "committed"
    /\ \E r \in returns : r.id = outcome[w].id /\ r.branchId = 1
    /\ \E i \in DOMAIN stockMovements :
         stockMovements[i].type = "return" /\ stockMovements[i].branchId = 1

\* the createReturn requests of the users of both businesses
ReturnInputs ==
  UNION {OfBusiness(b, ReturnRequests({1}, {NoBranch, 4}, ScopedQtyLine)) : b \in Businesses}

\* the step ends worker w's createReturn with an error and writes nothing
ReturnRefused(w) ==
  /\ pc'[w] = "idle" /\ outcome'[w].kind = "return"
  /\ outcome'[w].result \in {"NotFound", "InvalidArgument"}
  /\ UNCHANGED <<dbVars, nextId, tx>>

\* C22: createReturn fails with NotFound when the business has no Sale with the id,
\* with InvalidArgument when the request names a branch that is not the sale's or the
\* sale has no line items, and fails when a requested product is not among the sale's
\* items; in each case no Return, ReturnItem, StockLevel or StockMovement is written
ReturnPreconditions ==
  [][\A w \in Workers : \A r \in ReturnInputs :
       (pc[w] = "idle" /\ started' # started /\ CreateReturnBegin(w, {r})) =>
         LET found == {s \in sales : s.id = r.saleId /\ s.businessId = r.businessId}
             sold == {i \in saleItems : i.saleId = r.saleId}
         IN /\ found = {} => ReturnRefused(w) /\ outcome'[w].result = "NotFound"
            /\ (found # {} /\ r.branchId # NoBranch
                  /\ \E s \in found : s.branchId # r.branchId)
                 => ReturnRefused(w) /\ outcome'[w].result = "InvalidArgument"
            /\ (found # {} /\ sold = {})
                 => ReturnRefused(w) /\ outcome'[w].result = "InvalidArgument"
            /\ (\E i \in DOMAIN r.items :
                   r.items[i].productId \notin {j.productId : j \in sold})
                 => ReturnRefused(w)]_vars

\* sale 1 is committed and a createReturn for it, made for the other business, ended
\* with NotFound
ReturnNotFoundWitness ==
  \E w \in Workers :
    /\ outcome[w].kind = "return" /\ outcome[w].result = "NotFound"
    /\ \E s \in sales : s.id = 1

\* the request has no item, a quantity below 1, one branch twice, a branch of another
\* business, or a product of another business
TransferRefusable(r) ==
  \/ r.items = <<>>
  \/ \E i \in DOMAIN r.items : r.items[i].quantity < 1
  \/ r.branchId = r.toBranchId
  \/ BranchBusiness[r.branchId] # r.businessId
  \/ BranchBusiness[r.toBranchId] # r.businessId
  \/ \E i \in DOMAIN r.items : ProductBusiness[r.items[i].productId] # r.businessId

\* C23: createStockTransfer is rejected, with nothing written, when the item list is
\* empty, a quantity is not a positive integer, the two branches are the same, a branch
\* is not one of the business, or a product is not one of the business: a request that
\* opens a transaction has none of these, and a rejection changes no row
TransferPreconditions ==
  [][\A w \in Workers :
       (pc[w] = "idle" /\ started' # started) =>
         /\ pc'[w] = "t_from" => ~TransferRefusable(req'[w])
         /\ (pc'[w] = "idle" /\ outcome'[w].kind = "transfer") =>
              /\ outcome'[w].result = "InvalidArgument"
              /\ UNCHANGED <<dbVars, nextId, tx>>]_vars

\* a transfer was refused for a product that is not one of the business, while a
\* transfer of the business is committed
TransferRefusedWitness ==
  \E w \in Workers :
    /\ outcome[w].kind = "transfer" /\ outcome[w].result = "InvalidArgument"
    /\ outcome[w].error = "Product not found for this business"
    /\ stockTransfers # {}

\* the movement rows a step appends
NewMovements == SubSeq(stockMovements', Len(stockMovements) + 1, Len(stockMovements'))

\* the keys of the seeded products and of the first created one
LedgerKeys == [businessId : Businesses, branchId : Branches, productId : Products \cup {NewProduct}]

\* the movement type each operation writes
MovementTypeOf(kind) ==
  CASE kind = "sale" -> "sale" [] kind = "return" -> "return" [] OTHER -> "adjustment"

\* the number of quantity changes request r makes to key k: one per line of the
\* product at the branch of the sale or return, one per line at the source and one per
\* line at the destination of a transfer
ChangesOn(r, k) ==
  LET n == Cardinality({i \in DOMAIN r.items : r.items[i].productId = k.productId})
      at(br) == IF k.branchId = br THEN n ELSE 0
  IN IF k.businessId # r.businessId THEN 0
     ELSE CASE r.kind = "sale" -> at(r.branchId)
            [] r.kind = "return" -> at(SaleById(r.saleId).branchId)
            [] OTHER -> at(r.branchId) + at(r.toBranchId)

\* the COMMIT of a sale, return or transfer appends exactly one movement of the
\* operation's type per quantity change of a key, and changes no key without one
MovementsComplete ==
  \A w \in Workers :
    Commits(w) =>
      /\ Len(NewMovements) =
           Len(req[w].items) * (IF req[w].kind = "transfer" THEN 2 ELSE 1)
      /\ \A k \in LedgerKeys :
           /\ Cardinality({i \in DOMAIN NewMovements :
                             /\ RowKey(NewMovements[i]) = k
                             /\ NewMovements[i].type = MovementTypeOf(req[w].kind)})
                = ChangesOn(req[w], k)
           /\ QuantityIn(stockLevels', k) # QuantityIn(stockLevels, k)
                => ChangesOn(req[w], k) > 0

\* C24: the movement log is append-only and complete: no step changes or removes a
\* StockMovement row, and every StockLevel quantity change of a createSale, createReturn
\* or createStockTransfer comes, in the same transaction, with exactly one new movement
\* of the same key (type sale, return, or adjustment at source and at destination)
MovementLog ==
  [][/\ Len(stockMovements') >= Len(stockMovements)
     /\ SubSeq(stockMovements', 1, Len(stockMovements)) = stockMovements
     /\ MovementsComplete]_vars

\* C25: a committed Sale, SaleItem, CashRegisterEntry, Return, ReturnItem or
\* StockTransferItem row is never changed or removed by a later operation, and a
\* committed StockTransfer keeps every field but its status
RowsImmutable ==
  [][/\ sales \subseteq sales'
     /\ saleItems \subseteq saleItems'
     /\ cashRegisterEntries \subseteq cashRegisterEntries'
     /\ returns \subseteq returns'
     /\ returnItems \subseteq returnItems'
     /\ stockTransferItems \subseteq stockTransferItems'
     /\ \A t \in stockTransfers :
          \E u \in stockTransfers' : [u EXCEPT !.status = t.status] = t]_vars

\* a transfer with its item has been set to received while a sale with its item and
\* register entry is committed
RowsKeptWitness ==
  /\ \E t \in stockTransfers :
       t.status = "received" /\ \E i \in stockTransferItems : i.transferId = t.id
  /\ \E s \in sales :
       /\ \E i \in saleItems : i.saleId = s.id
       /\ \E c \in cashRegisterEntries : c.saleId = s.id

\* C26: after a createProduct with an initial quantity or an updateProduct with a
\* quantity, the StockLevel quantity of the key written is the signed sum of the
\* StockMovement rows of the key, under some sign for each movement type
ProductLedger ==
  [][\A w \in Workers :
       (Answers(w, {"createProduct", "updateProduct"}) /\ outcome'[w].result = "ok") =>
         \A x \in outcome'[w].rows :
           \E sign \in [MovementTypes -> {-1, 1}] :
             LET rows == {i \in DOMAIN stockMovements' : RowKey(stockMovements'[i]) = RowKey(x)}
             IN QuantityIn(stockLevels', RowKey(x)) =
                  SumSet(rows, [i \in rows |->
                                  sign[stockMovements'[i].type] * stockMovements'[i].quantity])]_vars

\* C27: there is at most one StockLevel row for each (businessId, branchId, productId),
\* also when two operations make the first movement on a key at the same time
OneRowPerKey ==
  \A k \in AllKeys : Cardinality(LevelRows(stockLevels, k)) <= 1

\* C28: a createReturn request that names a product on several lines is accepted only
\* if the sum of those lines is at most what is left to return of the product (sold on
\* the sale minus returned against it)
ReturnLinesBound ==
  [][\A w \in Workers :
       (pc[w] = "idle" /\ pc'[w] = "r_item") =>
         \A p \in Products :
           LinesQuantity(req'[w].items, p) <=
             SoldQuantity(req'[w].saleId, p) - ReturnedQuantity(req'[w].saleId, p)]_vars

\* the createReturn requests of the one-worker specification
SeqReturnInputs == ReturnRequests({1, 2}, {NoBranch, 1, 2}, QtyLists({1, 2}))

\* the sale is one of the business and of the branch named (if any), and every line
\* asks for a product on the sale, with a positive quantity of at most what was sold
\* of the product on the sale, over all its lines, minus what was returned
Returnable(r) ==
  /\ r.items # <<>>
  /\ \E s \in sales : /\ s.id = r.saleId /\ s.businessId = r.businessId
                       /\ r.branchId \in {NoBranch, s.branchId}
  /\ \A i \in DOMAIN r.items :
       LET p == r.items[i].productId IN
       /\ \E j \in saleItems : j.saleId = r.saleId /\ j.productId = p
       /\ r.items[i].quantity >= 1
       /\ r.items[i].quantity <= SoldQuantity(r.saleId, p) - ReturnedQuantity(r.saleId, p)

\* C29: createReturn accepts every request each of whose lines asks for a product on
\* the sale and a positive quantity of at most the total sold of the product on the
\* sale minus what was already returned, also when the sale has several lines of it
ReturnAcceptance ==
  [][\A w \in Workers : \A r \in SeqReturnInputs :
       (pc[w] = "idle" /\ started' # started /\ Returnable(r) /\ CreateReturnBegin(w, {r}))
         => pc'[w] = "r_item"]_vars

\* C30: a createStockTransfer commits only if, for each product, the sum of its lines
\* is at most the source quantity before the transfer, and the commit takes exactly
\* that sum from the source key and adds it to the destination key, also when the
\* request names the product on several lines
TransferLines ==
  [][\A w \in Workers :
       (Commits(w) /\ req[w].kind = "transfer") =>
         \A p \in Products :
           LET n == LinesQuantity(req[w].items, p)
               from == KeyOf(req[w].businessId, req[w].branchId, p)
               to == KeyOf(req[w].businessId, req[w].toBranchId, p)
           IN /\ n <= QuantityIn(stockLevels, from)
              /\ QuantityIn(stockLevels', from) = QuantityIn(stockLevels, from) - n
              /\ QuantityIn(stockLevels', to) = QuantityIn(stockLevels, to) + n]_vars

\* a transfer with two lines of one product has committed
TransferLinesWitness ==
  \E w \in Workers :
    /\ outcome[w].kind = "transfer" /\ outcome[w].result = "committed"
    /\ \E i \in stockTransferItems : \E j \in stockTransferItems :
         /\ i.transferId = outcome[w].id /\ j.transferId = outcome[w].id
         /\ i.productId = j.productId /\ i.line # j.line
====
